---- MODULE Spec2Model ----
(***************************************************************************)
(* State-machine model of DatabaseManager (src/js/database.js): the        *)
(* localStorage facade with the in-memory fallback, the quota check, the   *)
(* cleanup of old data, export/import, statistics and the two validators.  *)
(*                                                                         *)
(* JavaScript values are records tagged by t (typeof, with null and array  *)
(* told apart).  A stored text is a sequence of tokens; JSON.stringify and *)
(* JSON.parse are modelled as the conversion between values and token      *)
(* sequences, and Blob sizes as the byte length of the token sequence.     *)
(***************************************************************************)
EXTENDS Integers, Sequences, FiniteSets, TLC

\* ------------------------------------------------------------------ bounds
\* Facade operations per behaviour.
MaxOps == 3
\* Frames of saveData/cleanupOldData the call stack holds before RangeError.
MaxStack == 4
\* Storage primitive invocations of one operation that a fault plan may fail.
MaxFaultIdx == 2

\* --------------------------------------------------------------- JS values
Undef == [t |-> "undefined"]
Null == [t |-> "null"]
Num(n) == [t |-> "number", n |-> n]
Bool(b) == [t |-> "boolean", b |-> b]
\* A string: its content s, its UTF-8 length len, and what Date.parse gives
\* for it (NaN for a string that is no date).  NaN is a number outside the
\* range the model's numbers take.
NaN == 0 - 2147483647
Str(s, len) == [t |-> "string", s |-> s, len |-> len, ms |-> NaN]
IsoDate(ms) == [t |-> "string", s |-> "iso", len |-> 24, ms |-> ms]
Obj(props) == [t |-> "object", props |-> props]
Arr(items) == [t |-> "array", items |-> items]
\* An object that refers to itself: JSON.stringify throws on it.
Circular == [t |-> "object", props |-> [self |-> [t |-> "circular"]]]
True == Bool(TRUE)
False == Bool(FALSE)

\* JavaScript truthiness (!x is its negation).
Truthy(v) ==
    CASE v.t \in {"undefined", "null"} -> FALSE
      [] v.t = "number" -> v.n # 0 /\ v.n # NaN
      [] v.t = "boolean" -> v.b
      [] v.t = "string" -> v.len > 0
      [] OTHER -> TRUE

\* typeof v === 'object'
TypeofObject(v) == v.t \in {"object", "array", "null"}

\* v[name] for a value that is not null or undefined.
Prop(v, name) ==
    IF v.t = "object" /\ name \in DOMAIN v.props THEN v.props[name] ELSE Undef

\* ------------------------------------------------------------ storageKeys
StorageKeys ==
    << "userProfile", "quizResults", "timelineEvents",
       "collegeFavorites", "courseComparisons", "appSettings" >>
Keys == {StorageKeys[i] : i \in 1..Len(StorageKeys)}

\* ------------------------------------------------- JSON.stringify / parse
RECURSIVE SumBytes(_, _)
SumBytes(f, S) ==
    IF S = {} THEN 0
    ELSE LET x == CHOOSE y \in S : TRUE IN f[x] + SumBytes(f, S \ {x})

NumBytes(n) == IF n < 0 THEN 2 ELSE IF n < 10 THEN 1 ELSE IF n < 100 THEN 2 ELSE 3

\* What JSON.stringify writes for a value nested in another: undefined
\* properties are left out, an undefined array item becomes null.
RECURSIVE JsonForm(_)
JsonForm(v) ==
    CASE v.t = "object" ->
           LET kept == {p \in DOMAIN v.props : v.props[p].t # "undefined"}
           IN Obj([p \in kept |-> JsonForm(v.props[p])])
      [] v.t = "array" ->
           Arr([i \in 1..Len(v.items) |->
                  IF v.items[i].t = "undefined" THEN Null
                  ELSE JsonForm(v.items[i])])
      [] OTHER -> v

RECURSIVE HasCycle(_)
HasCycle(v) ==
    CASE v.t = "circular" -> TRUE
      [] v.t = "object" -> \E p \in DOMAIN v.props : HasCycle(v.props[p])
      [] v.t = "array" -> \E i \in 1..Len(v.items) : HasCycle(v.items[i])
      [] OTHER -> FALSE

\* Bytes of the JSON text of a value.
RECURSIVE ValueBytes(_)
ValueBytes(v) ==
    CASE v.t = "null" -> 4
      [] v.t = "number" -> NumBytes(v.n)
      [] v.t = "boolean" -> IF v.b THEN 4 ELSE 5
      [] v.t = "string" -> v.len + 2
      [] v.t = "object" ->
           LET names == DOMAIN v.props
               each == [p \in names |-> Len(p) + 3 + ValueBytes(v.props[p])]
           IN 2 + SumBytes(each, names)
                + (IF names = {} THEN 0 ELSE Cardinality(names) - 1)
      [] v.t = "array" ->
           LET idx == 1..Len(v.items)
               each == [i \in idx |-> ValueBytes(v.items[i])]
           IN 2 + SumBytes(each, idx) + (IF idx = {} THEN 0 ELSE Len(v.items) - 1)
      [] OTHER -> 0

\* Tokens of a JSON text: the brackets and commas of the outermost array,
\* and one literal per scalar, object or nested array.
LB == [k |-> "["]
RB == [k |-> "]"]
Comma == [k |-> ","]
Lit(v) == [k |-> "lit", v |-> v]
\* A fragment that is not JSON, as a foreign writer may leave it.
Junk == [k |-> "junk"]

RECURSIVE JoinItems(_)
JoinItems(items) ==
    IF Len(items) = 0 THEN << >>
    ELSE IF Len(items) = 1 THEN << Lit(items[1]) >>
    ELSE << Lit(items[1]), Comma >> \o JoinItems(Tail(items))

\* JSON.stringify(data): a text, undefined for undefined, or a TypeError.
Stringify(data) ==
    IF HasCycle(data) THEN [kind |-> "throw", text |-> << >>]
    ELSE IF data.t = "undefined" THEN [kind |-> "undefined", text |-> << >>]
    ELSE LET j == JsonForm(data)
         IN IF j.t = "array"
            THEN [kind |-> "text", text |-> << LB >> \o JoinItems(j.items) \o << RB >>]
            ELSE [kind |-> "text", text |-> << Lit(j) >>]

RECURSIVE ParseItems(_)
\* The literals of "lit , lit , ... lit"; ok is FALSE on any other shape.
ParseItems(toks) ==
    IF Len(toks) = 0 THEN [ok |-> FALSE, items |-> << >>]
    ELSE IF toks[1].k # "lit" THEN [ok |-> FALSE, items |-> << >>]
    ELSE IF Len(toks) = 1 THEN [ok |-> TRUE, items |-> << toks[1].v >>]
    ELSE IF toks[2].k # "," THEN [ok |-> FALSE, items |-> << >>]
    ELSE LET rest == ParseItems(SubSeq(toks, 3, Len(toks)))
         IN [ok |-> rest.ok, items |-> << toks[1].v >> \o rest.items]

\* JSON.parse(text): ok is FALSE for a SyntaxError.
ParseText(text) ==
    IF Len(text) = 1 /\ text[1].k = "lit" THEN [ok |-> TRUE, v |-> text[1].v]
    ELSE IF Len(text) >= 2 /\ text[1].k = "[" /\ text[Len(text)].k = "]"
    THEN IF Len(text) = 2 THEN [ok |-> TRUE, v |-> Arr(<< >>)]
         ELSE LET inner == ParseItems(SubSeq(text, 2, Len(text) - 1))
              IN [ok |-> inner.ok, v |-> IF inner.ok THEN Arr(inner.items) ELSE Undef]
    ELSE [ok |-> FALSE, v |-> Undef]

TokenBytes(tok) == IF tok.k = "lit" THEN ValueBytes(tok.v) ELSE 1

\* new Blob([text]).size
RECURSIVE BlobSize(_)
BlobSize(text) ==
    IF Len(text) = 0 THEN 0 ELSE TokenBytes(text[1]) + BlobSize(Tail(text))

\* ------------------------------------------------------- the two stores
Absent == [present |-> FALSE]
Item(text) == [present |-> TRUE, text |-> text]
\* memoryStorage[key] = undefined: the property exists and holds no text.
UndefItem == [present |-> TRUE, undef |-> TRUE]
HasText(e) == e.present /\ "text" \in DOMAIN e
EmptyStore == [k \in Keys |-> Absent]

\* 5 * 1024 * 1024, the size saveData and getStorageStats assume.
QuotaBytes == 5 * 1024 * 1024

\* new Blob([JSON.stringify(localStorage)]).size: {"key":"text",...}
\* (the escapes of the quotes inside a text are not counted).
StoreBytes(ls) ==
    LET held == {k \in Keys : ls[k].present}
        each == [k \in held |-> Len(k) + 5 + BlobSize(ls[k].text)]
    IN 2 + SumBytes(each, held) + (IF held = {} THEN 0 ELSE Cardinality(held) - 1)

\* ------------------------------------------------ one operation's machine
\* The facade's state as one operation runs, with the operation's inputs:
\* plan, the invocations of storage primitives that throw; handlerDepth,
\* the deepest frame whose catch block still finds room on the stack.
\* calls, passes and parseErrors count the storage primitives invoked, the
\* runs of cleanupOldData and the SyntaxErrors of JSON.parse.
Machine(ls, mem, useMem, now, plan, handlerDepth) ==
    [ls |-> ls, mem |-> mem, useMem |-> useMem, now |-> now,
     plan |-> plan, handlerDepth |-> handlerDepth,
     calls |-> 0, passes |-> 0, parseErrors |-> 0, evicted |-> FALSE,
     postEvict |-> EmptyStore, writeThrew |-> FALSE]

Ok(m, ret) == [m |-> m, ret |-> ret, thrown |-> FALSE]
Throw(m) == [m |-> m, ret |-> Undef, thrown |-> TRUE]

\* ------------------------------------------------- localStorage primitives
Invoke(m) == [m EXCEPT !.calls = @ + 1]
Fails(m) == (m.calls + 1) \in m.plan

\* localStorage.setItem(key, text): QuotaExceededError when the write grows
\* the store past the quota.
SetItem(m, key, text) ==
    LET ls1 == [m.ls EXCEPT ![key] = Item(text)]
    IN IF Fails(m) THEN Throw(Invoke(m))
       ELSE IF StoreBytes(ls1) > QuotaBytes /\ StoreBytes(ls1) > StoreBytes(m.ls)
       THEN Throw(Invoke(m))
       ELSE Ok([Invoke(m) EXCEPT !.ls = ls1], Undef)

\* localStorage.getItem(key): the entry (Absent stands for null).
GetItem(m, key) ==
    IF Fails(m) THEN Throw(Invoke(m)) ELSE Ok(Invoke(m), m.ls[key])

\* localStorage.removeItem(key)
RemoveItem(m, key) ==
    IF Fails(m) THEN Throw(Invoke(m))
    ELSE Ok([Invoke(m) EXCEPT !.ls = [m.ls EXCEPT ![key] = Absent]], Undef)

\* ------------------------------------------------------------- removeData
\* The try block: delete this.memoryStorage[key], or
\* localStorage.removeItem(key); return true
RemoveDataBody(m, key) ==
    IF m.useMem THEN Ok([m EXCEPT !.mem = [m.mem EXCEPT ![key] = Absent]], True)
    ELSE LET r == RemoveItem(m, key)
         IN IF r.thrown THEN r ELSE Ok(r.m, True)

\* removeData without its catch block.
RemoveDataUncaught(m, key) == RemoveDataBody(m, key)

RemoveData(m, key) ==
    LET body == RemoveDataBody(m, key)
    IN IF body.thrown THEN Ok(body.m, False) ELSE body

\* ---------------------------------------------------------------- getData
\* `data ? JSON.parse(data) : null` and `if (!data) return null`: an absent
\* entry, an undefined one and the empty text are all falsy.
FalsyData(e) == ~HasText(e) \/ Len(e.text) = 0

ParseFailed(m) == [m EXCEPT !.parseErrors = @ + 1]

GetDataKeepCorrupted(m, key) ==
    LET e == IF m.useMem THEN Ok(m, m.mem[key]) ELSE GetItem(m, key)
    IN IF e.thrown THEN Ok(e.m, Null)
       ELSE IF FalsyData(e.ret) THEN Ok(e.m, Null)
       ELSE IF ParseText(e.ret.text).ok THEN Ok(e.m, ParseText(e.ret.text).v)
       ELSE Ok(ParseFailed(e.m), Null)

\* The catch block: this.removeData(key); return null
Healed(r) == IF r.thrown THEN r ELSE Ok(r.m, Null)

GetData(m, key) ==
    LET e == IF m.useMem THEN Ok(m, m.mem[key]) ELSE GetItem(m, key)
    IN IF e.thrown THEN Healed(RemoveData(e.m, key))
       ELSE IF FalsyData(e.ret) THEN Ok(e.m, Null)
       ELSE IF ParseText(e.ret.text).ok THEN Ok(e.m, ParseText(e.ret.text).v)
       ELSE Healed(RemoveData(ParseFailed(e.m), key))

\* ------------------------------------------------- isStorageQuotaExceeded
IsStorageQuotaExceeded(m, newData) ==
    IF Fails(m) THEN Ok(Invoke(m), False)
    ELSE Ok(Invoke(m), Bool(StoreBytes(m.ls) + BlobSize(newData) > QuotaBytes))

\* ------------------------------------------- saveData and cleanupOldData
\* data === null || data === undefined
IsFalsyValue(data) == ~Truthy(data)
IsNullish(data) == data.t \in {"null", "undefined"}

\* quizResults[quizResults.length - 1]
FirstResult(list) == IF Len(list.items) = 0 THEN Undef ELSE list.items[1]
LatestResult(list) ==
    IF Len(list.items) = 0 THEN Undef ELSE list.items[Len(list.items)]

\* new Date(x).getTime(): a number is a timestamp, a string is parsed,
\* null is the epoch, anything else is an Invalid Date.
DateOf(x) ==
    CASE x.t = "number" -> x.n
      [] x.t = "string" -> x.ms
      [] x.t = "null" -> 0
      [] OTHER -> NaN

\* new Date(event.date) >= now; a comparison with NaN is false.
IsFuture(event, now) ==
    LET d == DateOf(Prop(event, "date")) IN d # NaN /\ d >= now
IsStrictlyAfter(event, now) ==
    LET d == DateOf(Prop(event, "date")) IN d # NaN /\ d > now

RECURSIVE FutureOnly(_, _)
FutureOnly(items, now) ==
    IF Len(items) = 0 THEN << >>
    ELSE (IF IsStrictlyAfter(items[1], now) THEN << items[1] >> ELSE << >>)
         \o FutureOnly(Tail(items), now)

\* timelineEvents.filter(event => new Date(event.date) >= now)
RECURSIVE FutureEvents(_, _)
FutureEvents(items, now) ==
    IF Len(items) = 0 THEN << >>
    ELSE (IF IsFuture(items[1], now) THEN << items[1] >> ELSE << >>)
         \o FutureEvents(Tail(items), now)

\* event.date is a TypeError for a null item.
FilterThrows(items) == \E i \in 1..Len(items) : items[i].t \in {"null", "undefined"}

\* The catch block of a frame at depth d: it handles the error when the
\* stack still has room for it, and otherwise the RangeError goes on to the
\* caller.
Caught(body, d, ret) ==
    IF ~body.thrown THEN body
    ELSE IF d <= body.m.handlerDepth THEN Ok(body.m, ret)
    ELSE Throw(body.m)

\* The statements after one that may throw: skipped when it threw.
Then(o, Rest(_)) == IF o.thrown THEN o ELSE Rest(o)

\* this.memoryStorage[key] = JSON.stringify(data); return true
MemoryWrite(m, key, s) ==
    IF s.kind = "throw" THEN Throw(m)
    ELSE Ok([m EXCEPT !.mem = [m.mem EXCEPT ![key] =
               IF s.kind = "undefined" THEN UndefItem ELSE Item(s.text)]], True)

\* localStorage.setItem(key, serializedData); return true
StoreWrite(m, key, text, d) ==
    Then(SetItem(m, key, text), LAMBDA w : Ok(w.m, True))

\* Bookkeeping of the outermost saveData: whether its quota check asked for
\* a cleanup, the store as the cleanup left it, whether its write threw.
NoteQuota(m, d, exceeded) ==
    IF d = 0 THEN [m EXCEPT !.evicted = exceeded] ELSE m
NoteCleanup(m, d, exceeded) ==
    IF d = 0 /\ exceeded THEN [m EXCEPT !.postEvict = m.ls] ELSE m
NoteWrite(o, d) ==
    IF d = 0 /\ o.thrown THEN Throw([o.m EXCEPT !.writeThrew = TRUE]) ELSE o

RECURSIVE SaveData(_, _, _, _), CleanupOldData(_, _)
\* d is the number of saveData/cleanupOldData frames below this one; a call
\* past MaxStack is a RangeError raised in the caller.
SaveData(m, key, data, d) ==
    IF d > MaxStack THEN Throw(m)
    ELSE Caught(
           IF m.useMem THEN MemoryWrite(m, key, Stringify(data))
           ELSE IF IsNullish(data) THEN Ok(m, False)
           ELSE IF Stringify(data).kind = "throw" THEN Throw(m)
           ELSE Then(IsStorageQuotaExceeded(m, Stringify(data).text), LAMBDA q :
                Then(IF q.ret = True
                     THEN CleanupOldData(NoteQuota(q.m, d, TRUE), d + 1)
                     ELSE Ok(NoteQuota(q.m, d, FALSE), Undef), LAMBDA c :
                     NoteWrite(StoreWrite(NoteCleanup(c.m, d, q.ret = True), key,
                                          Stringify(data).text, d), d))),
           d, False)

CleanupOldData(m, d) ==
    IF d > MaxStack THEN Throw(m)
    ELSE Caught(
           Then(GetData([m EXCEPT !.passes = @ + 1], "quizResults"), LAMBDA g1 :
           Then(IF Truthy(g1.ret) /\ g1.ret.t = "array"
                THEN SaveData(g1.m, "quizResults", LatestResult(g1.ret), d + 1)
                ELSE Ok(g1.m, Undef), LAMBDA s1 :
           Then(GetData(s1.m, "timelineEvents"), LAMBDA g2 :
           Then(IF Truthy(g2.ret) /\ g2.ret.t = "array"
                THEN IF FilterThrows(g2.ret.items) THEN Throw(g2.m)
                     ELSE SaveData(g2.m, "timelineEvents",
                                   Arr(FutureEvents(g2.ret.items, g2.m.now)), d + 1)
                ELSE Ok(g2.m, Undef), LAMBDA s2 :
           Ok(s2.m, Undef))))),
           d, Undef)

\* ----------------------------------------------------- initializeDatabase
\* Bytes the probe of isLocalStorageAvailable adds: the key
\* '__localStorage_test__' holding itself.
ProbeBytes == 2 * Len("__localStorage_test__") + 6

\* isLocalStorageAvailable(): setItem then removeItem of the probe key;
\* available is FALSE when the browser refuses every access to localStorage.
IsLocalStorageAvailable(m, available) ==
    IF ~available THEN Ok(m, False)
    ELSE IF Fails(m) \/ StoreBytes(m.ls) + ProbeBytes > QuotaBytes
    THEN Ok(Invoke(m), False)
    ELSE IF Fails(Invoke(m)) THEN Ok(Invoke(Invoke(m)), False)
    ELSE Ok(Invoke(Invoke(m)), True)

DefaultSettings(now) ==
    Obj([theme |-> Str("light", 5), language |-> Str("en", 2),
         notifications |-> True, autoSave |-> True, createdAt |-> IsoDate(now)])

\* The result says whether the default appSettings were written (the code
\* returns nothing).
\* useMemoryStorage = true; memoryStorage = {}; return
FallBack(m) == Ok([m EXCEPT !.useMem = TRUE, !.mem = EmptyStore], False)
\* saveData(appSettings, {theme, language, notifications, autoSave, createdAt})
WriteDefaults(m) ==
    Then(SaveData(m, "appSettings", DefaultSettings(m.now), 0),
         LAMBDA s : Ok(s.m, s.ret))

InitializeAlwaysWrites(m, available) ==
    Caught(Then(IsLocalStorageAvailable(m, available), LAMBDA a :
                IF a.ret = False THEN FallBack(a.m) ELSE WriteDefaults(a.m)),
           0, False)

InitializeDatabase(m, available) ==
    Caught(Then(IsLocalStorageAvailable(m, available), LAMBDA a :
                IF a.ret = False THEN FallBack(a.m)
                ELSE Then(GetData(a.m, "appSettings"), LAMBDA g :
                          IF Truthy(g.ret) THEN Ok(g.m, False)
                          ELSE WriteDefaults(g.m))),
           0, False)

\* ---------------------------------------------------------- exportAllData
WithProp(props, name, v) ==
    [p \in DOMAIN props \cup {name} |-> IF p = name THEN v ELSE props[p]]
NoProps == [p \in {} |-> Null]

\* The forEach over Object.values(storageKeys), from key i on: the bundle so
\* far, and what getData returned for each key.
RECURSIVE ExportFrom(_, _, _)
ExportFrom(o, i, seen) ==
    IF i > Len(StorageKeys) THEN [m |-> o.m, ret |-> o.ret, thrown |-> FALSE, seen |-> seen]
    ELSE LET g == GetData(o.m, StorageKeys[i])
         IN IF g.thrown
            THEN [m |-> g.m, ret |-> o.ret, thrown |-> TRUE, seen |-> seen]
            ELSE ExportFrom(Ok(g.m, IF Truthy(g.ret)
                                    THEN WithProp(o.ret, StorageKeys[i], g.ret)
                                    ELSE o.ret),
                            i + 1, [seen EXCEPT ![StorageKeys[i]] = g.ret])

\* allData.exportDate = new Date().toISOString(); allData.version = '1.0'
Stamped(e) ==
    [m |-> e.m, thrown |-> FALSE, seen |-> e.seen,
     ret |-> IF e.thrown THEN Null
             ELSE Obj(WithProp(WithProp(e.ret, "exportDate", IsoDate(e.m.now)),
                               "version", Str("1.0", 3)))]

ExportAllData(m) == Stamped(ExportFrom(Ok(m, NoProps), 1, [k \in Keys |-> Null]))

\* ---------------------------------------------------------- importAllData
RECURSIVE ImportFrom(_, _, _)
ImportFrom(m, i, backupData) ==
    IF i > Len(StorageKeys) THEN Ok(m, True)
    ELSE Then(IF Truthy(Prop(backupData, StorageKeys[i]))
              THEN SaveData(m, StorageKeys[i], Prop(backupData, StorageKeys[i]), 0)
              ELSE Ok(m, Undef),
              LAMBDA s : ImportFrom(s.m, i + 1, backupData))

ImportAllData(m, backupData) ==
    Caught(IF ~Truthy(backupData) \/ ~TypeofObject(backupData) THEN Throw(m)
           ELSE ImportFrom(m, 1, backupData),
           0, False)

\* -------------------------------------------------------- getStorageStats
\* Math.round((totalSize / maxSize) * 100)
Percentage(totalSize) == (totalSize * 200 + QuotaBytes) \div (2 * QuotaBytes)

\* used and total are given in bytes (formatBytes only formats them).
GetStorageStats(m) ==
    IF m.useMem
    THEN Ok(m, Obj([used |-> Num(Cardinality({k \in Keys : m.mem[k].present})),
                    total |-> Str("Memory Storage", 14),
                    percentage |-> Num(0)]))
    ELSE IF Fails(m) THEN Ok(Invoke(m), Null)
    ELSE Ok(Invoke(m), Obj([used |-> Num(StoreBytes(m.ls)),
                            total |-> Num(QuotaBytes),
                            percentage |-> Num(Percentage(StoreBytes(m.ls)))]))

\* ---------------------------------------------------- validateQuizResults
\* x < y and x > y on JavaScript values: both are false when either side
\* converts to NaN.
ToNumber(v) ==
    CASE v.t = "number" -> v.n
      [] v.t = "null" -> 0
      [] v.t = "boolean" -> IF v.b THEN 1 ELSE 0
      [] v.t = "string" -> IF v.len = 0 THEN 0 ELSE NaN
      [] OTHER -> NaN
Below(v, bound) == ToNumber(v) # NaN /\ ToNumber(v) < bound
Above(v, bound) == ToNumber(v) # NaN /\ ToNumber(v) > bound

Message(text) == Str(text, Len(text))
Verdict(errors) == Obj([isValid |-> Bool(Len(errors) = 0), errors |-> Arr(errors)])

ValidateQuizResults(quizData) ==
    LET e1 == IF ~Truthy(Prop(quizData, "answers"))
                 \/ ~TypeofObject(Prop(quizData, "answers"))
              THEN << Message("Quiz answers are required") >> ELSE << >>
        e2 == IF ~Truthy(Prop(quizData, "primaryStream"))
              THEN << Message("Primary stream is required") >> ELSE << >>
        c == Prop(quizData, "confidence")
        e3 == IF ~Truthy(c) \/ Below(c, 0) \/ Above(c, 100)
              THEN << Message("Valid confidence score is required") >> ELSE << >>
    IN Verdict(e1 \o e2 \o e3)

\* ---------------------------------------------------- validateUserProfile
Required(profileData, field) ==
    IF ~Truthy(Prop(profileData, field))
    THEN << Message(field \o " is required") >> ELSE << >>

ValidateUserProfile(profileData) ==
    LET age == Prop(profileData, "age")
        range == IF Truthy(age) /\ (Below(age, 13) \/ Above(age, 30))
                 THEN << Message("Age must be between 13 and 30") >> ELSE << >>
    IN Verdict(Required(profileData, "name") \o Required(profileData, "age")
               \o Required(profileData, "class") \o range)

\* ------------------------------------------------------------------ state
VARIABLES
    localStorage,       \* the browser's store: key -> Absent or Item(text)
    memoryStorage,      \* this.memoryStorage
    useMemoryStorage,   \* this.useMemoryStorage
    now,                \* the clock new Date() reads
    lastOp,             \* the last call of the facade and what it returned
    backup,             \* the last bundle exportAllData returned, what getData
                        \* gave for each key then, and whether anything but
                        \* calls of the facade has touched the stores since
    settingsWrites,     \* initializations that wrote the default appSettings
    steps               \* calls made so far

vars == << localStorage, memoryStorage, useMemoryStorage, now, lastOp, backup,
           settingsWrites, steps >>

\* ----------------------------------------------------------------- inputs
Profile == Obj([name |-> Str("A", 1), age |-> Num(17), class |-> Str("12", 2)])
\* A quiz result with a report of 1.5 MiB.
QuizResult(id) ==
    Obj([answers |-> Obj([q1 |-> Str("a", 1)]),
         primaryStream |-> Str("Science", 7),
         confidence |-> Num(80),
         report |-> Str(id, 3 * 512 * 1024)])
R1 == QuizResult("r1")
R2 == QuizResult("r2")
QuizList == Arr(<< R1, R2 >>)
Event(id, date) == Obj([title |-> Str(id, 1), date |-> date])
Undated(id) == Obj([title |-> Str(id, 1)])
EventList ==
    Arr(<< Event("b", IsoDate(4)), Event("c", Str("tbd", 3)), Event("a", IsoDate(1)),
           Undated("d"), Event("e", IsoDate(3)) >>)

\* The calls of saveData the model makes: every key, and under the keys
\* together every shape of value (falsy scalar, object, list, null,
\* undefined, an object JSON.stringify rejects).
SaveInputs ==
    {<< "userProfile", v >> : v \in {Profile, Num(0), Null, Undef, Circular}}
    \cup {<< "quizResults", v >> : v \in {QuizList, R2, Null}}
    \cup {<< "timelineEvents", v >> : v \in {EventList, Undef}}
    \cup {<< "collegeFavorites", v >> : v \in {QuizList, R2}}
    \cup {<< "courseComparisons", v >> : v \in {R2, Num(0)}}
    \cup {<< "appSettings", v >> : v \in {Profile, Num(0)}}
\* What a foreign writer leaves: a text that is no JSON, and the empty text.
ForeignInputs ==
    {<< k, text >> : k \in {"userProfile", "timelineEvents", "appSettings"},
                     text \in {<< Junk >>, << >>}}
\* What the first construction finds in localStorage: nothing, or what an
\* earlier visit left by saveData(userProfile, 0).
InitialStores ==
    {EmptyStore, [EmptyStore EXCEPT !["userProfile"] = Item(Stringify(Num(0)).text)]}
NoFaults == {{}}
FaultPlans == SUBSET (1..MaxFaultIdx)
HandlerDepths == {MaxStack - 1, MaxStack}

\* ---------------------------------------------------------------- actions
Start(plan, h) ==
    Machine(localStorage, memoryStorage, useMemoryStorage, now, plan, h)

Record(op, key, arg, o) ==
    [op |-> op, key |-> key, arg |-> arg, ret |-> o.ret, thrown |-> o.thrown,
     passes |-> o.m.passes, parseErrors |-> o.m.parseErrors,
     evicted |-> o.m.evicted, postEvict |-> o.m.postEvict,
     writeThrew |-> o.m.writeThrew]

Commit(o) ==
    /\ localStorage' = o.m.ls
    /\ memoryStorage' = o.m.mem
    /\ useMemoryStorage' = o.m.useMem

\* One more call; the clock has advanced when the next one reads it.
Call == steps < MaxOps /\ steps' = steps + 1 /\ now' = now + 1

\* window.dbManager = new DatabaseManager() on a page load.
PageLoad(available, plan, h) ==
    /\ Call
    /\ LET o == InitializeDatabase(
                  Machine(localStorage, EmptyStore, FALSE, now, plan, h), available)
       IN /\ Commit(o)
          /\ lastOp' = Record("init", "appSettings", Bool(available), o)
          /\ settingsWrites' = settingsWrites + (IF o.ret = True THEN 1 ELSE 0)
    /\ backup' = [backup EXCEPT !.disturbed = TRUE]

Save(key, data, plan, h) ==
    /\ Call
    /\ LET o == SaveData(Start(plan, h), key, data, 0)
       IN Commit(o) /\ lastOp' = Record("save", key, data, o)
    /\ UNCHANGED << backup, settingsWrites >>

Get(key, plan) ==
    /\ Call
    /\ LET o == GetData(Start(plan, MaxStack), key)
       IN Commit(o) /\ lastOp' = Record("get", key, Undef, o)
    /\ UNCHANGED << backup, settingsWrites >>

Remove(key, plan) ==
    /\ Call
    /\ LET o == RemoveData(Start(plan, MaxStack), key)
       IN Commit(o) /\ lastOp' = Record("remove", key, Undef, o)
    /\ UNCHANGED << backup, settingsWrites >>

Export(plan) ==
    /\ Call
    /\ LET o == ExportAllData(Start(plan, MaxStack))
       IN /\ Commit(o)
          /\ lastOp' = Record("export", "", Undef, o)
          /\ backup' = [valid |-> o.ret # Null, bundle |-> o.ret, seen |-> o.seen,
                         disturbed |-> FALSE]
    /\ UNCHANGED settingsWrites

Import(backupData, plan, h) ==
    /\ Call
    /\ LET o == ImportAllData(Start(plan, h), backupData)
       IN Commit(o) /\ lastOp' = Record("import", "", backupData, o)
    /\ UNCHANGED << backup, settingsWrites >>

Stats(plan) ==
    /\ Call
    /\ LET o == GetStorageStats(Start(plan, MaxStack))
       IN Commit(o) /\ lastOp' = Record("stats", "", Undef, o)
    /\ UNCHANGED << backup, settingsWrites >>

\* Something other than the facade (an older build, another script of the
\* page) leaves a text that is not JSON under a key of localStorage.
ForeignWrite(key, text) ==
    /\ Call
    /\ localStorage' = [localStorage EXCEPT ![key] = Item(text)]
    /\ lastOp' = Record("foreign", key, Undef, Ok(Start({}, MaxStack), Undef))
    /\ backup' = [backup EXCEPT !.disturbed = TRUE]
    /\ UNCHANGED << memoryStorage, useMemoryStorage, settingsWrites >>

Init ==
    \E available \in BOOLEAN, found \in InitialStores :
      LET o == InitializeDatabase(
                 Machine(found, EmptyStore, FALSE, 0, {}, MaxStack), available)
      IN /\ localStorage = o.m.ls
         /\ memoryStorage = o.m.mem
         /\ useMemoryStorage = o.m.useMem
         /\ now = 1
         /\ lastOp = Record("init", "appSettings", Bool(available), o)
         /\ backup = [valid |-> FALSE, bundle |-> Null,
                      seen |-> [k \in Keys |-> Null], disturbed |-> FALSE]
         /\ settingsWrites = (IF o.ret = True THEN 1 ELSE 0)
         /\ steps = 0

Calls(plans) ==
    \/ \E available \in BOOLEAN, plan \in plans, h \in HandlerDepths :
         PageLoad(available, plan, h)
    \/ \E in \in SaveInputs, plan \in plans, h \in HandlerDepths :
         Save(in[1], in[2], plan, h)
    \/ \E key \in Keys, plan \in plans : Get(key, plan)
    \/ \E key \in Keys, plan \in plans : Remove(key, plan)
    \/ \E plan \in plans : Export(plan)
    \/ \E backupData \in {backup.bundle, Null}, plan \in plans, h \in HandlerDepths :
         Import(backupData, plan, h)
    \/ \E plan \in plans : Stats(plan)

Environment == \E in \in ForeignInputs : ForeignWrite(in[1], in[2])

Next == Calls(NoFaults) \/ Environment
Spec == Init /\ [][Next]_vars

\* The same facade over a store whose primitives may throw at any call.
NextFaulty == Calls(FaultPlans) \/ Environment
SpecFaulty == Init /\ [][NextFaulty]_vars

\* ------------------------------------------------------------- validators
Answers == {Undef, Null, Obj(NoProps), Obj([q1 |-> Str("a", 1)]), Str("abc", 3)}
Streams == {Undef, Str("", 0), Str("Science", 7)}
Confidences == {Undef, Num(0 - 1), Num(0), Num(50), Num(100), Num(150)}
QuizInputs ==
    {Obj([answers |-> a, primaryStream |-> p, confidence |-> c]) :
       a \in Answers, p \in Streams, c \in Confidences}
ProfileInputs ==
    {Obj([name |-> n, age |-> a, class |-> c]) :
       n \in {Undef, Str("A", 1)},
       a \in {Undef, Num(10), Num(13), Num(30), Num(31)},
       c \in {Undef, Str("X", 1)}}

Validated(op, arg, ret) ==
    /\ lastOp' = Record(op, "", arg, Ok(Start({}, MaxStack), ret))
    /\ UNCHANGED << localStorage, memoryStorage, useMemoryStorage, now, backup,
                    settingsWrites, steps >>

ValidateQuiz(quizData) ==
    Validated("validateQuizResults", quizData, ValidateQuizResults(quizData))
ValidateProfile(profileData) ==
    Validated("validateUserProfile", profileData, ValidateUserProfile(profileData))

NextValidate ==
    \/ \E quizData \in QuizInputs : ValidateQuiz(quizData)
    \/ \E profileData \in ProfileInputs : ValidateProfile(profileData)
SpecValidate == Init /\ [][NextValidate]_vars

\* ----------------------------------------------------------------- claims
\* What a reader of the durable store finds under a key, without the side
\* effects of getData: the parsed value, or null.
Peek(ls, key) ==
    IF FalsyData(ls[key]) \/ ~ParseText(ls[key].text).ok THEN Null
    ELSE ParseText(ls[key].text).v

\* get(key) called in the current state.
GetNow(key) == GetData(Start({}, MaxStack), key).ret

\* The step is a call of the facade named op.
IsCall(op) == steps' = steps + 1 /\ lastOp'.op = op

JsonSerializable(v) == v \notin {Null, Undef} /\ ~HasCycle(v) /\ JsonForm(v) = v
TextOf(v) == Item(Stringify(v).text)

\* C1: a save of a non-null JSON value that triggered no eviction returned
\* true, and get of the same key now returns a value equal to the one saved,
\* in durable and in fallback mode.
RoundTrip ==
    (lastOp.op = "save" /\ JsonSerializable(lastOp.arg) /\ ~lastOp.evicted)
      => (lastOp.ret = True /\ GetNow(lastOp.key) = lastOp.arg)

RoundTripWitness ==
    /\ lastOp.op = "save" /\ lastOp.arg = Num(0) /\ lastOp.ret = True
    /\ useMemoryStorage /\ GetNow(lastOp.key) = Num(0)

\* C2: save(k, null) and save(k, undefined) return false and change no
\* stored value, also in fallback mode.
SaveNullRejected ==
    [][(IsCall("save") /\ lastOp'.arg \in {Null, Undef})
         => (lastOp'.ret = False /\ localStorage' = localStorage
             /\ memoryStorage' = memoryStorage)]_vars

\* C3: importAll of the bundle exportAll returned in a state S, called after
\* any calls of save and remove, returns true and leaves get(k) equal to
\* what it was in S for every logical key.
ImportRestoresExport ==
    (lastOp.op = "import" /\ backup.valid /\ ~backup.disturbed
     /\ lastOp.arg = backup.bundle)
      => (lastOp.ret = True /\ \A k \in Keys : GetNow(k) = backup.seen[k])

LastOf(v) == v.items[Len(v.items)]
ResultList(v) ==
    v.t = "array" /\ Len(v.items) >= 1
    /\ \A i \in 1..Len(v.items) : v.items[i].t = "object"

\* C4 (as claimed): after a save on quizResults of a list of results whose
\* projected size exceeded the threshold, the stored value is the last
\* element of that list.
QuizSaveStoresLatest ==
    (lastOp.op = "save" /\ lastOp.key = "quizResults" /\ lastOp.evicted
     /\ ResultList(lastOp.arg))
      => localStorage["quizResults"] = TextOf(LastOf(lastOp.arg))

\* C4 (amended): a save on another key whose projected size exceeded the
\* threshold leaves the last element of the list that was stored under
\* quizResults; a save on quizResults that returns true leaves the list it
\* was given.
EvictionKeepsLatestStored ==
    [][IsCall("save") /\ lastOp'.evicted
         => /\ (lastOp'.key # "quizResults"
                  /\ ResultList(Peek(localStorage, "quizResults")))
                 => localStorage'["quizResults"]
                      = TextOf(LastOf(Peek(localStorage, "quizResults")))
            /\ (lastOp'.key = "quizResults" /\ ResultList(lastOp'.arg)
                  /\ lastOp'.ret = True)
                 => localStorage'["quizResults"] = TextOf(lastOp'.arg)]_vars

EvictionKeepsLatestWitness ==
    /\ lastOp.op = "save" /\ lastOp.evicted /\ lastOp.key = "collegeFavorites"
    /\ steps = 2 /\ lastOp.ret = True
    /\ localStorage["collegeFavorites"] = TextOf(QuizList)
    /\ localStorage["quizResults"] = TextOf(R2)

EventItems(v) ==
    v.t = "array" /\ \A i \in 1..Len(v.items) : v.items[i].t = "object"
NotPast(event) ==
    /\ "date" \in DOMAIN event.props
    /\ event.props["date"].t = "string"
    /\ event.props["date"].ms # NaN
    /\ ~(event.props["date"].ms < now)

\* C5: when eviction runs with a list of events stored under
\* timelineEvents, the list stored when it returns holds exactly the events
\* whose date is not before the current time, in their order; an event with
\* a past or unparseable date is gone.
TimelineEviction ==
    [][(IsCall("save") /\ lastOp'.evicted
          /\ EventItems(Peek(localStorage, "timelineEvents")))
         => lastOp'.postEvict["timelineEvents"]
              = TextOf(Arr(SelectSeq(Peek(localStorage, "timelineEvents").items,
                                     NotPast)))]_vars

TimelineEvictionWitness ==
    /\ lastOp.op = "save" /\ lastOp.evicted /\ now = 4
    /\ lastOp.postEvict["timelineEvents"]
         = TextOf(Arr(<< Event("b", IsoDate(4)), Event("e", IsoDate(3)) >>))

BoolValue(v) == v = True \/ v = False

\* C6: with the store's primitives free to throw, no call lets an exception
\* out: save, remove and importAll return a boolean, get a value or null,
\* exportAll and stats an object or null, and save returns false whenever
\* its write to the store threw.
NoExceptionEscapes ==
    /\ ~lastOp.thrown
    /\ lastOp.op \in {"save", "remove", "import"} => BoolValue(lastOp.ret)
    /\ lastOp.op = "get" => lastOp.ret.t # "undefined"
    /\ lastOp.op \in {"export", "stats"} => lastOp.ret.t \in {"null", "object"}
    /\ (lastOp.op = "save" /\ lastOp.writeThrew) => lastOp.ret = False

NoExceptionEscapesWitness ==
    /\ lastOp.op = "save" /\ lastOp.writeThrew /\ ~lastOp.evicted
    /\ lastOp.ret = False /\ ~lastOp.thrown

Corrupted(e) == e.present /\ ~ParseText(e.text).ok
Heals(key) ==
    /\ lastOp'.ret = Null
    /\ localStorage'[key] = Absent
    /\ \A other \in Keys \ {key} : localStorage'[other] = localStorage[other]

\* C7 (as claimed): get of a key whose stored text cannot be deserialized
\* returns null and leaves the record absent and every other record as it
\* was.
SelfHealingRead ==
    [][(IsCall("get") /\ ~useMemoryStorage /\ Corrupted(localStorage[lastOp'.key]))
         => Heals(lastOp'.key)]_vars

\* C7 (amended): the same for a stored text that is not empty; an empty
\* text makes get return null and stays where it is.
SelfHealingNonEmpty ==
    [][(IsCall("get") /\ ~useMemoryStorage /\ Corrupted(localStorage[lastOp'.key]))
         => IF Len(localStorage[lastOp'.key].text) > 0
            THEN Heals(lastOp'.key) /\ lastOp'.parseErrors = 1
            ELSE lastOp'.ret = Null /\ localStorage' = localStorage
                 /\ lastOp'.parseErrors = 0]_vars

SelfHealingWitness ==
    /\ lastOp.op = "get" /\ lastOp.parseErrors = 1 /\ lastOp.ret = Null
    /\ localStorage[lastOp.key] = Absent
    /\ GetNow(lastOp.key) = Null

\* C8: a save runs the eviction pass once when its projected size exceeds
\* the threshold and never otherwise; the pass starts no further pass.
EvictionRunsOnce ==
    lastOp.op = "save" => lastOp.passes = (IF lastOp.evicted THEN 1 ELSE 0)

SettingsRecord(v) == v.t = "object" /\ "createdAt" \in DOMAIN v.props

\* C9 (as claimed): at most one initialization writes the default
\* appSettings, and none changes an appSettings record made earlier.
SettingsCreatedOnce ==
    [][IsCall("init")
         => /\ settingsWrites' <= 1
            /\ SettingsRecord(Peek(localStorage, "appSettings"))
                 => localStorage' = localStorage]_vars

\* C9 (amended): an initialization writes the default appSettings exactly
\* when the durable store is usable and get(appSettings) gives null or a
\* falsy value; it changes nothing of a store whose appSettings is truthy.
SettingsWrittenWhenMissing ==
    [][IsCall("init")
         => /\ lastOp'.ret = True
                 <=> (~useMemoryStorage' /\ ~Truthy(Peek(localStorage, "appSettings")))
            /\ lastOp'.ret = True
                 => localStorage'["appSettings"] = TextOf(DefaultSettings(now))
            /\ Truthy(Peek(localStorage, "appSettings"))
                 => localStorage'["appSettings"] = localStorage["appSettings"]]_vars

SettingsKeptWitness ==
    /\ lastOp.op = "init" /\ steps > 0 /\ ~useMemoryStorage /\ lastOp.ret = False
    /\ localStorage["appSettings"] = TextOf(DefaultSettings(0))
    /\ settingsWrites = 1

InRange(c) == c.t = "number" /\ c.n # NaN /\ c.n >= 0 /\ c.n <= 100
ConfidenceError == Message("Valid confidence score is required")

\* C10: for an input with a non-empty answers map and a primary stream,
\* validateQuizResults answers isValid with no confidence error exactly when
\* confidence is a number of [0, 100].
ConfidenceRangeAccepted ==
    (lastOp.op = "validateQuizResults"
     /\ Prop(lastOp.arg, "answers") = Obj([q1 |-> Str("a", 1)])
     /\ Truthy(Prop(lastOp.arg, "primaryStream")))
      => /\ Prop(lastOp.ret, "isValid") = Bool(InRange(Prop(lastOp.arg, "confidence")))
         /\ (\E i \in 1..Len(Prop(lastOp.ret, "errors").items) :
               Prop(lastOp.ret, "errors").items[i] = ConfidenceError)
              <=> ~InRange(Prop(lastOp.arg, "confidence"))

====
